---- MODULE Spec2Model ----
(***************************************************************************)
(* Model of the auto-tag-file edge function                                *)
(* (supabase/functions/auto-tag-file/index.ts): the keyword extraction,    *)
(* the tag find-or-create (ensureTagExists), the link replacement          *)
(* (linkFileTags) and the request handler, run by concurrent requests      *)
(* against the shared tables tags and file_tags.                           *)
(*                                                                         *)
(* A JavaScript string is a sequence of one-character strings, so that     *)
(* toLowerCase, the regular expressions, trim and split are computed       *)
(* character by character.  Str turns such a sequence into a TLA+ string.  *)
(***************************************************************************)
EXTENDS Integers, Sequences, FiniteSets, TLC

(* ----------------------------- strings -------------------------------- *)

UpperLetters ==
  <<"A","B","C","D","E","F","G","H","I","J","K","L","M",
    "N","O","P","Q","R","S","T","U","V","W","X","Y","Z">>

LowerLetters ==
  <<"a","b","c","d","e","f","g","h","i","j","k","l","m",
    "n","o","p","q","r","s","t","u","v","w","x","y","z">>

Digits == {"0","1","2","3","4","5","6","7","8","9"}

Range(s) == { s[i] : i \in DOMAIN s }

\* String.prototype.toLowerCase on one character
toLowerChar(c) ==
  IF \E i \in DOMAIN UpperLetters : UpperLetters[i] = c
    THEN LowerLetters[CHOOSE i \in DOMAIN UpperLetters : UpperLetters[i] = c]
    ELSE c

toLowerCase(s) == [ i \in 1..Len(s) |-> toLowerChar(s[i]) ]

\* the regular-expression classes \w, \s and \d
isWordChar(c) == c \in Range(UpperLetters) \cup Range(LowerLetters) \cup Digits \cup {"_"}

isSpace(c) == c \in {" ", "\t", "\n", "\r"}

isDigit(c) == c \in Digits

RECURSIVE Str(_)
Str(s) == IF s = <<>> THEN "" ELSE Head(s) \o Str(Tail(s))

\* .replace(/[^\w\s]/g, ' ')
replacePunct(s) ==
  [ i \in 1..Len(s) |-> IF isWordChar(s[i]) \/ isSpace(s[i]) THEN s[i] ELSE " " ]

\* .replace(/\s+/g, ' ')
RECURSIVE collapseSpace(_)
collapseSpace(s) ==
  IF s = <<>> THEN <<>>
  ELSE IF isSpace(Head(s))
    THEN IF Len(s) > 1 /\ isSpace(s[2])
           THEN collapseSpace(Tail(s))
           ELSE <<" ">> \o collapseSpace(Tail(s))
    ELSE <<Head(s)>> \o collapseSpace(Tail(s))

\* String.prototype.trim
RECURSIVE trimStart(_)
trimStart(s) == IF s # <<>> /\ isSpace(Head(s)) THEN trimStart(Tail(s)) ELSE s

RECURSIVE trimEnd(_)
trimEnd(s) ==
  IF s # <<>> /\ isSpace(s[Len(s)]) THEN trimEnd(SubSeq(s, 1, Len(s) - 1)) ELSE s

trim(s) == trimEnd(trimStart(s))

\* .split(' '): the pieces between single spaces ("" splits into [""])
RECURSIVE splitFrom(_, _)
splitFrom(s, cur) ==
  IF s = <<>> THEN <<cur>>
  ELSE IF Head(s) = " " THEN <<cur>> \o splitFrom(Tail(s), <<>>)
  ELSE splitFrom(Tail(s), Append(cur, Head(s)))

split(s) == splitFrom(s, <<>>)

\* variant: /^\d$/.test(word), one digit
isNumericOneDigit(w) == Len(w) = 1 /\ isDigit(w[1])

\* /^\d+$/.test(word)
isNumeric(w) == Len(w) > 0 /\ \A i \in 1..Len(w) : isDigit(w[i])

\* Array.prototype.slice(0, n)
slice(s, n) == SubSeq(s, 1, IF Len(s) < n THEN Len(s) ELSE n)

\* [...new Set(s)]: the first occurrence of every element, in order
RECURSIVE unique(_)
unique(s) ==
  IF s = <<>> THEN <<>>
  ELSE LET r == unique(SubSeq(s, 1, Len(s) - 1))
           e == s[Len(s)]
       IN  IF e \in Range(r) THEN r ELSE Append(r, e)

\* variant: entries with equal n change places
RECURSIVE sortDescUnstable(_)
sortDescUnstable(s) ==
  IF s = <<>> THEN <<>>
  ELSE LET r == sortDescUnstable(SubSeq(s, 1, Len(s) - 1))
           e == s[Len(s)]
           p == Cardinality({ i \in 1..Len(r) : r[i].n > e.n })
       IN  SubSeq(r, 1, p) \o <<e>> \o SubSeq(r, p + 1, Len(r))

\* Array.prototype.sort((a, b) => b[1] - a[1]) on entries [k, n]: stable, n descending
RECURSIVE sortDesc(_)
sortDesc(s) ==
  IF s = <<>> THEN <<>>
  ELSE LET r == sortDesc(SubSeq(s, 1, Len(s) - 1))
           e == s[Len(s)]
           p == Cardinality({ i \in 1..Len(r) : r[i].n >= e.n })
       IN  SubSeq(r, 1, p) \o <<e>> \o SubSeq(r, p + 1, Len(r))

(* ------------------------ extractKeywordsAndTags ----------------------- *)

stopWords ==
  {
    "the", "a", "an", "and", "or", "but", "in", "on", "at", "to", "for", "of", "with",
    "by", "is", "are", "was", "were", "be", "been", "have", "has", "had", "do", "does",
    "did", "will", "would", "could", "should", "may", "might", "can", "shall", "must",
    "this", "that", "these", "those", "i", "you", "he", "she", "it", "we", "they", "me",
    "him", "her", "us", "them", "my", "your", "his", "her", "its", "our", "their"
  }

domainKeywords ==
  <<
    [ tag |-> <<"t", "e", "c", "h", "n", "o", "l", "o", "g", "y">>,
      keywords |-> <<
        "software", "computer", "programming", "code", "algorithm", "database", "api",
        "javascript", "python", "react", "nodejs", "html", "css", "sql", "github", "git",
        "framework", "library", "development", "developer", "tech", "digital", "cyber",
        "network", "server", "cloud", "aws", "google", "microsoft", "apple", "website",
        "application", "mobile", "web", "system", "platform", "service", "infrastructure",
        "security", "encryption", "protocol" >> ],
    [ tag |-> <<"b", "u", "s", "i", "n", "e", "s", "s">>,
      keywords |-> <<
        "company", "enterprise", "corporation", "business", "finance", "financial",
        "revenue", "profit", "loss", "investment", "market", "marketing", "sales",
        "customer", "client", "strategy", "management", "leadership", "team", "employee",
        "budget", "cost", "expense", "income", "startup", "entrepreneur", "commerce",
        "trade", "industry", "organization", "partnership", "acquisition", "merger" >> ],
    [ tag |-> <<"s", "c", "i", "e", "n", "c", "e">>,
      keywords |-> <<
        "research", "study", "experiment", "hypothesis", "theory", "data", "analysis",
        "statistics", "biology", "chemistry", "physics", "mathematics", "medicine",
        "health", "medical", "clinical", "laboratory", "scientific", "academic",
        "university", "college", "education", "learning", "knowledge", "discovery",
        "innovation", "methodology", "empirical", "quantitative", "qualitative" >> ],
    [ tag |-> <<"l", "e", "g", "a", "l">>,
      keywords |-> <<
        "law", "legal", "court", "judge", "lawyer", "attorney", "contract", "agreement",
        "terms", "conditions", "policy", "regulation", "compliance", "litigation", "case",
        "plaintiff", "defendant", "evidence", "testimony", "verdict", "settlement",
        "rights", "liability", "jurisdiction", "statute", "legislation", "constitutional",
        "judicial", "arbitration" >> ],
    [ tag |-> <<"f", "i", "n", "a", "n", "c", "e">>,
      keywords |-> <<
        "money", "dollar", "currency", "bank", "banking", "account", "loan", "credit",
        "debt", "payment", "transaction", "invoice", "receipt", "tax", "taxes",
        "financial", "finance", "investment", "stock", "bond", "portfolio", "asset",
        "liability", "equity", "cash", "savings", "insurance", "mortgage", "interest",
        "dividend", "capital", "funding" >> ],
    [ tag |-> <<"h", "e", "a", "l", "t", "h">>,
      keywords |-> <<
        "health", "medical", "doctor", "hospital", "clinic", "patient", "treatment",
        "therapy", "medicine", "drug", "prescription", "diagnosis", "symptom", "disease",
        "illness", "injury", "pain", "wellness", "fitness", "exercise", "nutrition",
        "diet", "mental", "physical", "healthcare", "pharmaceutical", "preventive" >> ],
    [ tag |-> <<"e", "d", "u", "c", "a", "t", "i", "o", "n">>,
      keywords |-> <<
        "school", "university", "college", "student", "teacher", "professor", "education",
        "learning", "study", "course", "class", "lesson", "homework", "assignment", "exam",
        "test", "grade", "degree", "diploma", "certificate", "academic", "curriculum",
        "syllabus", "pedagogy", "instruction", "training" >> ],
    [ tag |-> <<"p", "e", "r", "s", "o", "n", "a", "l">>,
      keywords |-> <<
        "family", "friend", "relationship", "personal", "private", "diary", "journal",
        "note", "reminder", "memory", "photo", "picture", "vacation", "travel", "hobby",
        "interest", "goal", "plan", "dream", "wish", "hope", "feeling", "emotion",
        "thoughts", "lifestyle", "social", "community" >> ],
    [ tag |-> <<"c", "o", "m", "m", "u", "n", "i", "c", "a", "t", "i", "o", "n">>,
      keywords |-> <<
        "email", "message", "letter", "memo", "report", "document", "presentation",
        "meeting", "conference", "discussion", "conversation", "announcement",
        "notification", "correspondence", "communication", "newsletter", "publication",
        "article", "blog", "social", "media" >> ],
    [ tag |-> <<"p", "r", "o", "j", "e", "c", "t">>,
      keywords |-> <<
        "project", "task", "milestone", "deadline", "schedule", "timeline", "plan",
        "planning", "goal", "objective", "deliverable", "requirement", "specification",
        "proposal", "scope", "phase", "progress", "status", "update", "review", "approval",
        "completion" >> ]
  >>

\* text.toLowerCase().replace(/[^\w\s]/g, ' ').replace(/\s+/g, ' ').trim()
cleanText(text) == trim(collapseSpace(replacePunct(toLowerCase(text))))

\* variant: words of 2 characters pass
wordsKeepingShort(text) ==
  SelectSeq(split(cleanText(text)),
            LAMBDA w : Len(w) >= 2 /\ Str(w) \notin stopWords /\ ~isNumeric(w))

\* cleanText.split(' ') filtered: length > 2, no stop word, not purely numeric
words(text) ==
  SelectSeq(split(cleanText(text)),
            LAMBDA w : Len(w) > 2 /\ Str(w) \notin stopWords /\ ~isNumeric(w))

\* wordFreq: the Map's keys in insertion order, and the count of every key
wordFreqKeys(ws) == unique(ws)

wordFreqGet(ws, w) == Cardinality({ i \in 1..Len(ws) : ws[i] = w })

\* words.forEach(word => wordFreq.set(word, (wordFreq.get(word) || 0) + 1)):
\* the Map's entries [k, n] in insertion order
RECURSIVE wordFreq(_)
wordFreq(ws) ==
  IF ws = <<>> THEN <<>>
  ELSE LET m    == wordFreq(SubSeq(ws, 1, Len(ws) - 1))
           word == ws[Len(ws)]
           at   == { i \in DOMAIN m : m[i].k = word }
       IN  IF at = {} THEN Append(m, [ k |-> word, n |-> 1 ])
           ELSE [ i \in DOMAIN m |-> IF i \in at THEN [ k |-> word, n |-> m[i].n + 1 ]
                                                 ELSE m[i] ]

\* wordFreq.get(keyword) for a keyword of the table (0 when wordFreq has no such key)
keywordFreq(ws, keyword) == Cardinality({ i \in 1..Len(ws) : Str(ws[i]) = keyword })

\* variant: the bonus starts one character later
keywordWeightLonger(keyword) == IF Len(keyword) > 5 THEN 2 ELSE 1

\* the bonus for longer keywords
keywordWeight(keyword) == IF Len(keyword) > 4 THEN 2 ELSE 1

RECURSIVE sumScore(_, _)
sumScore(ws, keywords) ==
  IF keywords = <<>> THEN 0
  ELSE keywordFreq(ws, Head(keywords)) * keywordWeight(Head(keywords))
       + sumScore(ws, Tail(keywords))

domainScore(ws, d) == sumScore(ws, domainKeywords[d].keywords)

\* tagScores: the domains with score > 0, in declaration order
tagScores(ws) ==
  LET all == [ d \in 1..Len(domainKeywords) |->
                 [ k |-> domainKeywords[d].tag, n |-> domainScore(ws, d) ] ]
  IN  SelectSeq(all, LAMBDA e : e.n > 0)

sortedTags(ws) ==
  LET top == slice(sortDesc(tagScores(ws)), 5)
  IN  [ i \in 1..Len(top) |-> top[i].k ]

meaningfulWords(ws) ==
  LET entries == wordFreq(ws)
      kept    == SelectSeq(entries, LAMBDA e : e.n >= 2 /\ Len(e.k) >= 4 /\ Len(e.k) <= 15)
      top     == slice(sortDesc(kept), 3)
  IN  [ i \in 1..Len(top) |-> top[i].k ]

\* variant: without the Set
extractKeywordsAndTagsNoSet(text) ==
  IF text = <<>> \/ trim(text) = <<>> THEN <<>>
  ELSE LET ws == words(text)
       IN  slice(sortedTags(ws) \o meaningfulWords(ws), 6)

extractKeywordsAndTags(text) ==
  IF text = <<>> \/ trim(text) = <<>> THEN <<>>
  ELSE LET ws == words(text)
       IN  slice(unique(sortedTags(ws) \o meaningfulWords(ws)), 6)

(* ------------------------------ bounds --------------------------------- *)

\* requests received in one behaviour
MaxRequests == 2

\* requests received in one behaviour of SpecRetag
MaxRetags == 4

\* calls of ensureTagExists in one behaviour of SpecEnsure
MaxCalls == 3

\* store calls that fail for a reason outside the program (network, outage)
MaxFaults == 1

\* store calls that fail in one behaviour of SpecOutage
MaxOutage == 2

(* ------------------------------ inputs --------------------------------- *)

\* the handlers that can run at the same time
Req == {1, 2}

\* ids of rows of table files; a request body without file_id carries NoFile
Files == {1, 2}

NoFile == 0

\* request texts; <<>> is the empty or missing file_text
Texts ==
  << <<>>,
     <<" ","T","h","e"," ","1","2"," ","o","f",".","\n">>,
     <<"L","a","w">>,
     <<"t","a","x",","," ","L","A","W","!">>,
     <<"t","a","x">> >>

\* request bodies: without file_id, without file_text, and every file with a text
Bodies == {<<NoFile, 3>>, <<1, 1>>} \cup (Files \X {2, 3, 4})

\* the one body sent again and again in SpecRetag
Retag == <<1, 3>>

\* the texts of the requests for one file in SpecRace: they share no tag
RaceTexts == {3, 5}

\* tag names passed to ensureTagExists in SpecEnsure
TagNames ==
  { <<"I","n","v","o","i","c","e">>, <<"i","n","v","o","i","c","e">>,
    <<"I","N","V","O","I","C","E">>, <<"T","a","x">> }

Null == [ none |-> TRUE ]

\* extractKeywordsAndTags(file_text) of every request text
identified == [ k \in DOMAIN Texts |-> extractKeywordsAndTags(Texts[k]) ]

\* table file_tags without rows
NoLinks == [ p \in {} |-> 0 ]

(* ------------------------------- state --------------------------------- *)

VARIABLES
  uniqueTagName,   \* the store (not the program) rejects a second row with a tag_name
  uniqueFileTag,   \* the store (not the program) rejects a second row (file_id, tag_id)
  tags,            \* table tags: rows [id, tag_name]
  file_tags,       \* table file_tags: for every (file_id, tag_id) its number of rows
  req,             \* per handler: its position, locals and response
  started,         \* requests received so far
  faultsLeft,      \* store calls that may still fail for an outside reason
  last,            \* the request that finished last: what it was and what it left
  files,           \* table files, each row with the indexed_text of its file_content rows
  upload,          \* the documents-upload handler: its position, locals and response
  search,          \* the search handler: its query and its response
  listing,         \* the files handler: its parameters and its response
  ai,              \* identifyTagsWithAI: what the classifier answers, what the call returned
  local,           \* extractKeywordsAndTags called on its own: its text and its result
  client           \* AtlasAPI.autoTagFile in the browser: its request and its result

\* the state of the upload, search, classifier and client code
otherVars == <<files, upload, search, listing, ai, local, client>>

vars == <<uniqueTagName, uniqueFileTag, tags, file_tags, req, started, faultsLeft, last,
          files, upload, search, listing, ai, local, client>>

Idle ==
  [ pc |-> "idle", file_id |-> NoFile, txt |-> 0, identifiedTags |-> <<>>, i |-> 0,
    tagIds |-> <<>>, resp |-> Null,
    conc |-> FALSE, solo |-> FALSE, touched |-> FALSE, answered |-> FALSE,
    faulted |-> FALSE, created |-> FALSE, deleted |-> FALSE, linkError |-> FALSE,
    known |-> FALSE ]

\* the upload handler before its first request
NoUpload == [ pc |-> "idle" ]

\* nothing uploaded, searched or asked of the classifier
InitOther ==
  /\ files = {}
  /\ upload = NoUpload
  /\ search = Null
  /\ listing = Null
  /\ ai = Null
  /\ local = Null
  /\ client = Null

Init ==
  /\ uniqueTagName \in BOOLEAN
  /\ uniqueFileTag \in BOOLEAN
  /\ tags = {}
  /\ file_tags = NoLinks
  /\ req = [ r \in Req |-> Idle ]
  /\ started = 0
  /\ faultsLeft = MaxFaults
  /\ last = Null
  /\ InitOther

(* ------------------------------- tables -------------------------------- *)

\* rows of tags whose tag_name equals name: .from('tags').select('id').eq('tag_name', name)
tagRows(name) == { t \in tags : t.tag_name = name }

\* a new row's id (ids are serial and no row of tags is ever removed)
newTagId == Cardinality(tags) + 1

\* the tag ids linked to file f, and the number of rows of the pair (f, t)
linkedTags(f) == { p[2] : p \in { q \in DOMAIN file_tags : q[1] = f } }

linkRows(f, t) == IF <<f, t>> \in DOMAIN file_tags THEN file_tags[<<f, t>>] ELSE 0

\* .from('file_tags').delete().eq('file_id', f)
deleteFileTags(f) ==
  [ p \in { q \in DOMAIN file_tags : q[1] # f } |-> file_tags[p] ]

\* .from('file_tags').insert(rows): one row per element of ids
insertFileTags(ft, f, ids) ==
  [ p \in DOMAIN ft \cup { <<f, ids[j]>> : j \in DOMAIN ids } |->
      (IF p \in DOMAIN ft THEN ft[p] ELSE 0)
      + Cardinality({ j \in DOMAIN ids : <<f, ids[j]>> = p }) ]

\* the insert breaks the pair constraint, where the store has one
violatesFileTag(f, ids) ==
  /\ uniqueFileTag
  /\ \E p \in DOMAIN insertFileTags(file_tags, f, ids) :
       insertFileTags(file_tags, f, ids)[p] > 1

(* ------------------------------ responses ------------------------------ *)

\* tag_count is a field of the "tagged" body only
badRequest == [ status |-> 400, body |-> "required", tags |-> <<>>, tag_count |-> 0 ]

noTags == [ status |-> 200, body |-> "no_tags", tags |-> <<>>, tag_count |-> 0 ]

tagged(q) ==
  [ status |-> 200, body |-> "tagged", tags |-> q.identifiedTags,
    tag_count |-> Len(q.tagIds) ]

autoTaggingFailed == [ status |-> 500, body |-> "failed", tags |-> <<>>, tag_count |-> 0 ]

respond(q, resp) == [ q EXCEPT !.pc = "done", !.resp = resp ]

\* a store call returned: with an answer, or failed for an outside reason
called(q) == [ q EXCEPT !.touched = TRUE, !.answered = TRUE ]

failedCall(q) == [ q EXCEPT !.touched = TRUE, !.faulted = TRUE ]

(* ---------------------------- ensureTagExists --------------------------- *)

\* the name looked up: .eq('tag_name', tagName.toLowerCase())
findKey(tagName) == toLowerCase(tagName)

\* the name stored: .insert({ tag_name: tagName.toLowerCase() })
insertName(tagName) == toLowerCase(tagName)

\* the store answers .single() with a row only when exactly one row matches
singleRow(rows) == Cardinality(rows) = 1

\* variant: the links are written as soon as one tag id is collected
nextTagLinkEarly(q) ==
  IF Len(q.tagIds) > 0 THEN [ q EXCEPT !.i = q.i + 1, !.pc = "delete" ]
  ELSE IF q.i + 1 <= Len(q.identifiedTags) THEN [ q EXCEPT !.i = q.i + 1, !.pc = "find" ]
  ELSE respond([ q EXCEPT !.i = q.i + 1 ], tagged(q))

\* the handler's loop goes on to the next tag name; after the last one it calls
\* linkFileTags when a tag id was collected, and answers at once when none was
nextTag(q) ==
  IF q.i + 1 <= Len(q.identifiedTags) THEN [ q EXCEPT !.i = q.i + 1, !.pc = "find" ]
  ELSE IF Len(q.tagIds) > 0 THEN [ q EXCEPT !.i = q.i + 1, !.pc = "delete" ]
  ELSE respond([ q EXCEPT !.i = q.i + 1 ], tagged(q))

\* ensureTagExists returned id: tagIds.push(tagId)
pushTagId(q, id) == nextTag([ q EXCEPT !.tagIds = Append(q.tagIds, id) ])

\* variant: the failure of one tag ends the request
catchTagErrorAbort(q) == respond(q, autoTaggingFailed)

\* ensureTagExists threw: the per-tag catch logs and drops the tag
catchTagError(q) == nextTag(q)

\* the select of ensureTagExists
FindTag(r) ==
  LET q    == req[r]
      rows == tagRows(findKey(q.identifiedTags[q.i]))
  IN  /\ q.pc = "find"
      /\ \/ /\ faultsLeft > 0           \* findError: falls through to the insert
            /\ faultsLeft' = faultsLeft - 1
            /\ req' = [ req EXCEPT ![r] = [ failedCall(q) EXCEPT !.pc = "create" ] ]
         \/ /\ faultsLeft' = faultsLeft
            /\ req' = [ req EXCEPT ![r] =
                         IF singleRow(rows)
                           THEN pushTagId(called(q), (CHOOSE t \in rows : TRUE).id)
                           ELSE [ called(q) EXCEPT !.pc = "create" ] ]
      /\ UNCHANGED <<uniqueTagName, uniqueFileTag, tags, file_tags, started, last>>
      /\ UNCHANGED otherVars

\* variant: the insert is an upsert that replaces the rows of the name
CreateTagUpsert(r) ==
  LET q    == req[r]
      name == insertName(q.identifiedTags[q.i])
  IN  /\ q.pc = "create"
      /\ faultsLeft' = faultsLeft
      /\ tags' = (tags \ tagRows(name)) \cup { [ id |-> newTagId, tag_name |-> name ] }
      /\ req' = [ req EXCEPT ![r] =
                   pushTagId([ called(q) EXCEPT !.created = TRUE ], newTagId) ]
      /\ UNCHANGED <<uniqueTagName, uniqueFileTag, file_tags, started, last>>
      /\ UNCHANGED otherVars

\* the insert of ensureTagExists
CreateTag(r) ==
  LET q    == req[r]
      name == insertName(q.identifiedTags[q.i])
  IN  /\ q.pc = "create"
      /\ \/ /\ faultsLeft > 0           \* createError, thrown
            /\ faultsLeft' = faultsLeft - 1
            /\ req' = [ req EXCEPT ![r] = catchTagError(failedCall(q)) ]
            /\ tags' = tags
         \/ /\ faultsLeft' = faultsLeft
            /\ IF uniqueTagName /\ tagRows(name) # {}
                 THEN /\ req' = [ req EXCEPT ![r] = catchTagError(called(q)) ]
                      /\ tags' = tags
                 ELSE /\ tags' = tags \cup { [ id |-> newTagId, tag_name |-> name ] }
                      /\ req' = [ req EXCEPT ![r] =
                                   pushTagId([ called(q) EXCEPT !.created = TRUE ], newTagId) ]
      /\ UNCHANGED <<uniqueTagName, uniqueFileTag, file_tags, started, last>>
      /\ UNCHANGED otherVars

(* ------------------------------ linkFileTags ---------------------------- *)

\* first call: the result of the delete is not looked at
DeleteLinks(r) ==
  LET q == req[r]
  IN  /\ q.pc = "delete"
      /\ \/ /\ faultsLeft > 0
            /\ faultsLeft' = faultsLeft - 1
            /\ file_tags' = file_tags
            /\ req' = [ req EXCEPT ![r] = [ failedCall(q) EXCEPT !.pc = "insert" ] ]
         \/ /\ faultsLeft' = faultsLeft
            /\ file_tags' = deleteFileTags(q.file_id)
            /\ req' = [ req EXCEPT ![r] =
                         [ called(q) EXCEPT !.pc = "insert", !.deleted = TRUE ] ]
      /\ UNCHANGED <<uniqueTagName, uniqueFileTag, tags, started, last>>
      /\ UNCHANGED otherVars

\* variant: linkError is logged and the request goes on to its success response
catchLinkErrorLogged(q) == respond(q, tagged(q))

\* linkError: linkFileTags throws, the handler's outer catch answers 500
catchLinkError(q) == respond(q, autoTaggingFailed)

\* the insert returned linkError
linkFailed(q) == [ q EXCEPT !.linkError = TRUE ]

\* second call (tagIds.length > 0), and then the handler's response
InsertLinks(r) ==
  LET q == req[r]
  IN  /\ q.pc = "insert"
      /\ \/ /\ faultsLeft > 0
            /\ faultsLeft' = faultsLeft - 1
            /\ file_tags' = file_tags
            /\ req' = [ req EXCEPT ![r] = catchLinkError(linkFailed(failedCall(q))) ]
         \/ /\ faultsLeft' = faultsLeft
            /\ IF Len(q.tagIds) > 0 /\ violatesFileTag(q.file_id, q.tagIds)
                 THEN /\ file_tags' = file_tags
                      /\ req' = [ req EXCEPT ![r] = catchLinkError(linkFailed(called(q))) ]
                 ELSE /\ file_tags' = insertFileTags(file_tags, q.file_id, q.tagIds)
                      /\ req' = [ req EXCEPT ![r] = respond(called(q), tagged(q)) ]
      /\ UNCHANGED <<uniqueTagName, uniqueFileTag, tags, started, last>>
      /\ UNCHANGED otherVars

(* ------------------------------- handler ------------------------------- *)

\* variant: only file_id is required
validBodyIdOnly(fid, text) == fid # NoFile

\* !file_id || !file_text is false
validBody(fid, text) == fid # NoFile /\ text # <<>>

running(o) == req[o].pc \notin {"idle", "done"}

\* handlers are alike: a request is taken by the first one that is not running
free(r) == ~running(r) /\ \A o \in Req : o < r => running(o)

\* what a request that ran alone and met no failure leaves for the comparison
\* with the request after it
summary(q) ==
  IF q.solo /\ ~q.faulted /\ q.resp.body = "tagged"
    THEN [ file_id |-> q.file_id, tags |-> q.identifiedTags,
           tag_count |-> q.resp.tag_count, links |-> linkedTags(q.file_id) ]
    ELSE Null

\* the request before this one, when nothing overlapped it
previous(r) ==
  IF \E o \in Req \ {r} : running(o) THEN Null
  ELSE IF \A o \in Req : req[o].pc # "done" THEN last
  ELSE IF \E o \in Req : req[o].pc = "done" /\ summary(req[o]) # Null
    THEN summary(req[CHOOSE o \in Req : req[o].pc = "done" /\ summary(req[o]) # Null])
  ELSE Null

\* a request starts: the running ones are no longer alone, the answered ones are over
others(r, fid) ==
  [ o \in Req |->
      IF running(o)
        THEN [ req[o] EXCEPT !.solo = FALSE,
                             !.conc = req[o].conc \/ (fid # NoFile /\ req[o].file_id = fid) ]
        ELSE Idle ]

\* POST { file_id, file_text }: validation, extraction, the early return without tags
Receive(r, fid, k) ==
  LET q == [ Idle EXCEPT !.file_id = fid, !.txt = k,
               !.solo = \A o \in Req \ {r} : ~running(o),
               !.conc = fid # NoFile /\ \E o \in Req \ {r} :
                          running(o) /\ req[o].file_id = fid ]
  IN  /\ free(r)
      /\ started' = started + 1
      /\ last' = previous(r)
      /\ req' = [ others(r, fid) EXCEPT ![r] =
                   IF ~validBody(fid, Texts[k]) THEN respond(q, badRequest)
                   ELSE IF Len(identified[k]) = 0 THEN respond(q, noTags)
                   ELSE [ q EXCEPT !.pc = "find", !.identifiedTags = identified[k],
                                   !.i = 1 ] ]
      /\ UNCHANGED <<uniqueTagName, uniqueFileTag, tags, file_tags, faultsLeft>>

\* a request with any of the bodies
Request(r) ==
  /\ started < MaxRequests
  /\ \E b \in Bodies : Receive(r, b[1], b[2])
  /\ UNCHANGED otherVars

Next ==
  \E r \in Req :
    \/ Request(r)
    \/ FindTag(r)
    \/ CreateTag(r)
    \/ DeleteLinks(r)
    \/ InsertLinks(r)

Spec == Init /\ [][Next]_vars

\* requests for the same file, with texts that share no tag
RequestRace(r) ==
  /\ started < MaxRequests
  /\ \E k \in RaceTexts : Receive(r, Retag[1], k)
  /\ UNCHANGED otherVars

NextRace ==
  \E r \in Req :
    \/ RequestRace(r)
    \/ FindTag(r)
    \/ CreateTag(r)
    \/ DeleteLinks(r)
    \/ InsertLinks(r)

SpecRace == Init /\ [][NextRace]_vars

\* the same request body sent again and again
RequestAgain(r) ==
  /\ started < MaxRetags
  /\ Receive(r, Retag[1], Retag[2])
  /\ UNCHANGED otherVars

NextRetag ==
  \E r \in Req :
    \/ RequestAgain(r)
    \/ FindTag(r)
    \/ CreateTag(r)
    \/ DeleteLinks(r)
    \/ InsertLinks(r)

SpecRetag == Init /\ [][NextRetag]_vars

\* the store is out of reach for longer: more calls may fail
InitOutage ==
  /\ uniqueTagName \in BOOLEAN
  /\ uniqueFileTag \in BOOLEAN
  /\ tags = {}
  /\ file_tags = NoLinks
  /\ req = [ r \in Req |-> Idle ]
  /\ started = 0
  /\ faultsLeft = MaxOutage
  /\ last = Null
  /\ InitOther

SpecOutage == InitOutage /\ [][NextRetag]_vars

\* ensureTagExists called on its own, with names in any letter case; the call has
\* returned when pc is no longer "find" or "create"; known: a tag of that name,
\* in whatever letter case, was stored when the call was made
CallEnsure(r, tagName) ==
  /\ req[r].pc \notin {"find", "create"}
  /\ \A o \in Req : o < r => req[o].pc \in {"find", "create"}
  /\ started < MaxCalls
  /\ started' = started + 1
  /\ req' = [ req EXCEPT ![r] =
               [ Idle EXCEPT !.pc = "find", !.identifiedTags = <<tagName>>, !.i = 1,
                              !.known = tagRows(findKey(tagName)) # {} ] ]
  /\ UNCHANGED <<uniqueTagName, uniqueFileTag, tags, file_tags, faultsLeft, last>>
  /\ UNCHANGED otherVars

Call(r) == \E tagName \in TagNames : CallEnsure(r, tagName)

NextEnsure ==
  \E r \in Req :
    \/ Call(r)
    \/ FindTag(r)
    \/ CreateTag(r)

SpecEnsure == Init /\ [][NextEnsure]_vars

(* ------------------------------- claims -------------------------------- *)

\* no store call has failed so far
noFault == faultsLeft = MaxFaults

answeredReq(r) == req[r].pc = "done"

resolved(r) == Range(req[r].tagIds)

\* C1: after a request for file d that ended in success with a non-empty list of
\* resolved tag ids, and that no other request for d overlapped, the tags linked
\* to d are exactly the resolved ones (stated for a store that keeps tag names
\* unique, so that every name has one id).
C1_FullReplacement ==
  \A r \in Req :
    (/\ uniqueTagName
     /\ answeredReq(r)
     /\ req[r].resp.body = "tagged"
     /\ req[r].tagIds # <<>>
     /\ ~req[r].conc)
    => linkedTags(req[r].file_id) = resolved(r)

\* C2: a request for file d whose text yields no tags answers with an empty tag
\* list and leaves d without tag links, whatever d was linked to before (stated
\* for the texts that pass the validation: white space, stop words, numbers; no
\* store call failing).
C2_NoTagsNoLinks ==
  \A r \in Req :
    (/\ noFault
     /\ answeredReq(r)
     /\ req[r].file_id # NoFile
     /\ Texts[req[r].txt] # <<>>
     /\ identified[req[r].txt] = <<>>
     /\ ~req[r].conc)
    => /\ req[r].resp.tags = <<>>
       /\ linkedTags(req[r].file_id) = {}

\* C3: the same file reconciled with the same tag names twice in succession, with
\* nothing in between and no store call ever failing: the same links and the same
\* count after both, and no Tag row created by the second.
C3_Idempotent ==
  \A r \in Req :
    (/\ noFault
     /\ answeredReq(r)
     /\ req[r].resp.body = "tagged"
     /\ req[r].solo
     /\ ~req[r].faulted
     /\ last # Null
     /\ last.file_id = req[r].file_id
     /\ last.tags = req[r].identifiedTags)
    => /\ linkedTags(req[r].file_id) = last.links
       /\ req[r].resp.tag_count = last.tag_count
       /\ ~req[r].created

\* C4: a call of ensureTagExists for a name of which a tag was stored before, in
\* whatever letter case it was first given, creates no Tag row, and the id it
\* returns is the id of a row stored under the lower-cased name.
C4_SameIdNoNewRow ==
  \A r \in Req :
    (/\ req[r].known
     /\ req[r].pc \notin {"find", "create"})
    => /\ ~req[r].created
       /\ \A j \in DOMAIN req[r].tagIds :
            \E t \in tags : /\ t.id = req[r].tagIds[j]
                            /\ t.tag_name = toLowerCase(req[r].identifiedTags[1])

\* C5: no two Tag rows have the same lower-cased name, whatever the interleaving
\* of requests for different files (no store call failing).
C5_UniqueTagNames ==
  (noFault /\ \A r, o \in Req : r # o => req[r].file_id # req[o].file_id) =>
    \A t, u \in tags : toLowerCase(t.tag_name) = toLowerCase(u.tag_name) => t = u

\* C6: table file_tags holds no pair (file, tag) twice, whatever the interleaving
\* of the requests (no store call failing).
C6_NoDuplicateLinks ==
  noFault => \A p \in DOMAIN file_tags : file_tags[p] <= 1

\* C7: when a tag of a request was dropped because it could not be created, the
\* loop still went through every tag name, the request ends in success unless the
\* link insert failed, tag_count is the number of resolved tags, and these are
\* linked to the file.
C7_SkipFailedTag ==
  \A r \in Req :
    (/\ answeredReq(r)
     /\ req[r].identifiedTags # <<>>
     /\ Len(req[r].tagIds) < Len(req[r].identifiedTags)
     /\ ~req[r].linkError)
    => /\ req[r].resp.status = 200
       /\ req[r].resp.body = "tagged"
       /\ req[r].i = Len(req[r].identifiedTags) + 1
       /\ req[r].resp.tag_count = Cardinality(resolved(r))
       /\ \A id \in resolved(r) :
            \E t \in tags, j \in DOMAIN req[r].identifiedTags :
              t.id = id /\ t.tag_name = toLowerCase(req[r].identifiedTags[j])
       /\ ~req[r].conc => resolved(r) \subseteq linkedTags(req[r].file_id)

\* one of two tags was dropped, the other one is linked and counted
C7_Witness ==
  \E r \in Req :
    /\ answeredReq(r)
    /\ Len(req[r].identifiedTags) = 2
    /\ Len(req[r].tagIds) = 1
    /\ req[r].resp.body = "tagged"
    /\ req[r].resp.tag_count = 1
    /\ ~req[r].conc
    /\ linkRows(req[r].file_id, req[r].tagIds[1]) = 1

\* C8: a request that identified tags and whose every store call failed ends in
\* a failure, not in success.
C8_UnreachableStoreFails ==
  \A r \in Req :
    (/\ answeredReq(r)
     /\ req[r].identifiedTags # <<>>
     /\ req[r].touched
     /\ ~req[r].answered)
    => req[r].resp.status # 200

\* C9: the delete of the file's links succeeded and the insert of the new ones
\* failed: the file has no tag links and the request ends in an error.
C9_DeleteThenFailedInsert ==
  \A r \in Req :
    (/\ answeredReq(r)
     /\ req[r].deleted
     /\ req[r].linkError)
    => /\ req[r].resp.status = 500
       /\ req[r].resp.body = "failed"
       /\ ~req[r].conc => linkedTags(req[r].file_id) = {}

\* the insert failed after a delete that emptied the file's links
C9_Witness ==
  \E r \in Req :
    /\ answeredReq(r)
    /\ req[r].deleted
    /\ req[r].linkError
    /\ ~req[r].conc
    /\ req[r].resp.status = 500

\* C10: a body without file_id or without file_text is answered 400 and no store
\* call is made for it.
C10_RejectsIncompleteBody ==
  \A r \in Req :
    (/\ answeredReq(r)
     /\ (req[r].file_id = NoFile \/ Texts[req[r].txt] = <<>>))
    => /\ req[r].resp.status = 400
       /\ ~req[r].touched
       /\ ~req[r].created
       /\ ~req[r].deleted
       /\ req[r].tagIds = <<>>

\* a body without text for a file that has tag links
C10_Witness ==
  \E r \in Req :
    /\ answeredReq(r)
    /\ req[r].file_id # NoFile
    /\ Texts[req[r].txt] = <<>>
    /\ req[r].resp.status = 400
    /\ linkedTags(req[r].file_id) # {}

(* --------------------------- documents-upload --------------------------- *)

\* uploads received in one behaviour of SpecUpload
MaxUploads == 1

\* latest value of upload_date (the store's clock, in steps of its resolution)
MaxDate == 3

Dates == 0 .. MaxDate

\* names of uploaded files
FileNames ==
  { <<".","p","d","f">>,
    <<"L","a","w",".","p","d","f">>,
    <<"L","a","w",".","t","x","t">> }

\* what extractPdfText and extractImageText can return: "" when nothing was
\* read or the extraction failed, else the trimmed text
ExtractedTexts ==
  { <<>>, <<"t","a","x",","," ","L","A","W","!">> }

\* name.lastIndexOf(".")
lastIndexOf(s, c) ==
  IF \E j \in DOMAIN s : s[j] = c
    THEN CHOOSE j \in DOMAIN s : s[j] = c /\ \A l \in DOMAIN s : s[l] = c => l <= j
    ELSE 0

\* extFromName: what follows the last dot, lower-cased
extFromName(name) ==
  IF lastIndexOf(name, ".") > 0
    THEN toLowerCase(SubSeq(name, lastIndexOf(name, ".") + 1, Len(name)))
    ELSE <<>>

ImageExts == { "png", "jpg", "jpeg", "webp", "bmp", "tiff" }

\* detectType, for a file without a MIME type
detectType(name) ==
  IF Str(extFromName(name)) = "pdf" THEN "pdf"
  ELSE IF Str(extFromName(name)) \in ImageExts THEN "image"
  ELSE "other"

\* file.name.replace(/\.[^/.]+$/, ""): drops a last dot that is followed by one
\* or more characters other than "/" and "."
filenameNoExt(name) ==
  LET dot == lastIndexOf(name, ".")
  IN  IF /\ dot > 0
         /\ dot < Len(name)
         /\ \A j \in (dot + 1) .. Len(name) : name[j] # "/"
        THEN SubSeq(name, 1, dot - 1)
        ELSE name

\* (extractedText && extractedText.trim().length > 0) ? extractedText : filenameNoExt
textForIndex(extractedText, name) ==
  IF extractedText # <<>> /\ trim(extractedText) # <<>> THEN extractedText
  ELSE filenameNoExt(name)

\* the index of a text among the request texts
textIndex(text) == CHOOSE k \in DOMAIN Texts : Texts[k] = text

\* a row's serial id
newFileId == Cardinality(files) + 1

latestDate == IF files = {} THEN 0 ELSE CHOOSE d \in Dates :
                 /\ \E f \in files : f.upload_date = d
                 /\ \A f \in files : f.upload_date <= d

fileRow(id) == CHOOSE f \in files : f.id = id

\* file_id is a member of the success body only
uploadResponse(status, body, file_id) ==
  [ status |-> status, body |-> body, file_id |-> file_id ]

\* const fileBytes ... const fileType = detectType(file)
Upload(name) ==
  /\ upload.pc \in {"idle", "done"}
  /\ Cardinality(files) < MaxUploads
  /\ upload' = [ pc |-> "storage", name |-> name, fileType |-> detectType(name),
                 fileId |-> NoFile, extractedText |-> <<>>, text |-> <<>>,
                 content |-> FALSE, handler |-> 0, tag |-> Null, resp |-> Null ]
  /\ UNCHANGED <<uniqueTagName, uniqueFileTag, tags, file_tags, req, started,
                 faultsLeft, last, files, search, listing, ai, local, client>>

\* admin.storage.from("documents").upload(...)
StorageUpload ==
  /\ upload.pc = "storage"
  /\ \/ /\ faultsLeft > 0               \* uploadError
        /\ faultsLeft' = faultsLeft - 1
        /\ upload' = [ upload EXCEPT !.pc = "done",
                         !.resp = uploadResponse(500, "Upload failed", NoFile) ]
     \/ /\ faultsLeft' = faultsLeft
        /\ upload' = [ upload EXCEPT !.pc = "files" ]
  /\ UNCHANGED <<uniqueTagName, uniqueFileTag, tags, file_tags, req, started, last,
                 files, search, listing, ai, local, client>>

\* admin.from("files").insert({...}).select("id").limit(1); upload_date default now()
InsertFile ==
  /\ upload.pc = "files"
  /\ \/ /\ faultsLeft > 0               \* insertFileErr
        /\ faultsLeft' = faultsLeft - 1
        /\ files' = files
        /\ upload' = [ upload EXCEPT !.pc = "done",
                         !.resp = uploadResponse(500, "Failed to insert file metadata", NoFile) ]
     \/ /\ faultsLeft' = faultsLeft
        /\ \E now \in Dates :
             /\ now >= latestDate
             /\ files' = files \cup { [ id |-> newFileId, filename |-> upload.name,
                                        upload_date |-> now, file_content |-> <<>> ] }
        /\ upload' = [ upload EXCEPT !.pc = "extract", !.fileId = newFileId ]
  /\ UNCHANGED <<uniqueTagName, uniqueFileTag, tags, file_tags, req, started, last,
                 search, listing, ai, local, client>>

\* extractPdfText / extractImageText, then the fallback to the file name
ExtractText ==
  /\ upload.pc = "extract"
  /\ \E extractedText \in (IF upload.fileType \in {"pdf", "image"}
                             THEN ExtractedTexts ELSE { <<>> }) :
       upload' = [ upload EXCEPT !.pc = "content", !.extractedText = extractedText,
                     !.text = textForIndex(extractedText, upload.name) ]
  /\ UNCHANGED <<uniqueTagName, uniqueFileTag, tags, file_tags, req, started,
                 faultsLeft, last, files, search, listing, ai, local, client>>

\* admin.from("file_content").insert({ file_id, indexed_text }): fcErr is logged
InsertContent ==
  /\ upload.pc = "content"
  /\ \/ /\ faultsLeft > 0
        /\ faultsLeft' = faultsLeft - 1
        /\ files' = files
        /\ upload' = [ upload EXCEPT !.pc = "tag" ]
     \/ /\ faultsLeft' = faultsLeft
        /\ files' = (files \ { fileRow(upload.fileId) })
                    \cup { [ fileRow(upload.fileId) EXCEPT !.file_content = <<upload.text>> ] }
        /\ upload' = [ upload EXCEPT !.pc = "tag", !.content = TRUE ]
  /\ UNCHANGED <<uniqueTagName, uniqueFileTag, tags, file_tags, req, started, last,
                 search, listing, ai, local, client>>

\* success: true, file_id: fileId, ...
uploaded(u) ==
  [ u EXCEPT !.pc = "done", !.resp = uploadResponse(200, "success", u.fileId) ]

\* fetch(`${SUPABASE_URL}/functions/v1/auto-tag-file`, ...) with the text indexed
CallAutoTag(r) ==
  /\ upload.pc = "tag"
  /\ \/ /\ faultsLeft > 0               \* tagError: the fetch throws
        /\ faultsLeft' = faultsLeft - 1
        /\ upload' = uploaded(upload)
        /\ r = 1
        /\ UNCHANGED <<uniqueTagName, uniqueFileTag, tags, file_tags, req, started, last>>
     \/ /\ Receive(r, upload.fileId, textIndex(upload.text))
        /\ upload' = [ upload EXCEPT !.pc = "await", !.handler = r ]
  /\ UNCHANGED <<files, search, listing, ai, local, client>>

\* variant: a response of auto-tag-file that is not ok fails the upload
AutoTagReturnsStrict ==
  /\ upload.pc = "await"
  /\ req[upload.handler].pc = "done"
  /\ upload' = IF req[upload.handler].resp.status = 200
                THEN uploaded([ upload EXCEPT !.tag = req[upload.handler].resp ])
                ELSE [ upload EXCEPT !.pc = "done", !.tag = req[upload.handler].resp,
                         !.resp = uploadResponse(500, "Auto-tagging failed", NoFile) ]
  /\ UNCHANGED <<uniqueTagName, uniqueFileTag, tags, file_tags, req, started,
                 faultsLeft, last, files, search, listing, ai, local, client>>

\* tagResponse.ok ? ... : ...; then the upload's own response
AutoTagReturns ==
  /\ upload.pc = "await"
  /\ req[upload.handler].pc = "done"
  /\ upload' = uploaded([ upload EXCEPT !.tag = req[upload.handler].resp ])
  /\ UNCHANGED <<uniqueTagName, uniqueFileTag, tags, file_tags, req, started,
                 faultsLeft, last, files, search, listing, ai, local, client>>

NextUpload ==
  \/ \E name \in FileNames : Upload(name)
  \/ StorageUpload
  \/ InsertFile
  \/ ExtractText
  \/ InsertContent
  \/ AutoTagReturns
  \/ \E r \in Req :
       \/ CallAutoTag(r)
       \/ FindTag(r)
       \/ CreateTag(r)
       \/ DeleteLinks(r)
       \/ InsertLinks(r)

SpecUpload == Init /\ [][NextUpload]_vars

(* -------------------------------- search -------------------------------- *)

\* ids of the rows of table files in SpecSearch
RowIds == {1, 2, 3}

\* steps of the store's clock in one millisecond: upload_date has a finer
\* resolution than Date.getTime()
TicksPerMs == 2

\* file names of the rows
RowNames == { <<"R","e","p","o","r","t">>, <<"m","e","m","o">> }

\* file_content of a row: no content row, or one row with its indexed_text
RowTexts == { <<>>, << <<"a"," ","r","e","p","o","r","t">> >>, << <<"x">> >> }

\* the q parameter: missing or empty (<<>>), blank, and queries with capitals, with white space
\* around them, with a character that ILIKE reads as a wildcard, without match
Queries ==
  { <<>>, <<" ">>,
    <<"r","e","p","o","r","t">>, <<" ","R","e","p","O","R","T"," ">>,
    <<"m","_","m","o">>, <<"z","z">> }

\* tables files can be: serial ids, upload dates that do not go back
FileTables ==
  { t \in [ RowIds -> RowNames \X Dates \X RowTexts ] :
      \A m, n \in RowIds : m < n => t[m][2] <= t[n][2] }

tableRows(t) ==
  { [ id |-> n, filename |-> t[n][1], upload_date |-> t[n][2], file_content |-> t[n][3] ] :
      n \in RowIds }

\* String.prototype.startsWith and includes
startsWith(s, p) == Len(p) <= Len(s) /\ SubSeq(s, 1, Len(p)) = p

RECURSIVE includes(_, _)
includes(s, p) ==
  IF startsWith(s, p) THEN TRUE
  ELSE IF s = <<>> THEN FALSE
  ELSE includes(Tail(s), p)

\* SQL LIKE: % stands for any characters, _ for any one character
RECURSIVE like(_, _)
like(s, p) ==
  IF p = <<>> THEN s = <<>>
  ELSE IF Head(p) = "%"
    THEN like(s, Tail(p)) \/ (s # <<>> /\ like(Tail(s), p))
  ELSE IF s = <<>> THEN FALSE
  ELSE (Head(p) = "_" \/ Head(p) = Head(s)) /\ like(Tail(s), Tail(p))

\* ILIKE: LIKE without regard to letter case
ilike(s, p) == like(toLowerCase(s), toLowerCase(p))

\* searchQuery.trim().toLowerCase()
searchTerms(searchQuery) == toLowerCase(trim(searchQuery))

\* `%${searchTerms}%`
searchPattern(terms) == <<"%">> \o terms \o <<"%">>

\* the rows the or-filter keeps: filename.ilike.pattern or, for a file with a
\* content row, file_content.indexed_text.ilike.pattern
matching(pattern) ==
  { f \in files : \/ ilike(f.filename, pattern)
                  \/ \E j \in DOMAIN f.file_content : ilike(f.file_content[j], pattern) }

\* .order('upload_date', { ascending: false }): the rows in any order in which
\* no row comes before a row with a later upload_date
ordered(rows) ==
  { s \in [ 1 .. Cardinality(rows) -> rows ] :
      /\ \A i, j \in DOMAIN s : i # j => s[i] # s[j]
      /\ \A i, j \in DOMAIN s : i < j => s[i].upload_date >= s[j].upload_date }

\* variant: a match in the text alone counts as much as one in the name alone
relevance_scoreEitherPlace(file, terms) ==
  IF includes(toLowerCase(file.filename), terms)
    THEN (IF file.file_content # <<>> /\ includes(toLowerCase(file.file_content[1]), terms)
            THEN 3 ELSE 2)
    ELSE 2

\* relevance_score
relevance_score(file, terms) ==
  IF includes(toLowerCase(file.filename), terms)
    THEN (IF file.file_content # <<>> /\ includes(toLowerCase(file.file_content[1]), terms)
            THEN 3 ELSE 2)
    ELSE 1

\* one element of formattedResults
formatted(file, terms) ==
  [ id |-> file.id, filename |-> file.filename, upload_date |-> file.upload_date,
    has_content |-> file.file_content # <<>> /\ file.file_content[1] # <<>>,
    relevance_score |-> relevance_score(file, terms) ]

\* new Date(upload_date).getTime()
getTime(upload_date) == upload_date \div TicksPerMs

\* variant: among equal scores the older upload first
compareResultsOldestFirst(a, b) ==
  IF a.relevance_score # b.relevance_score
    THEN b.relevance_score - a.relevance_score
    ELSE getTime(a.upload_date) - getTime(b.upload_date)

\* the comparator of formattedResults.sort: negative when a is to come first
compareResults(a, b) ==
  IF a.relevance_score # b.relevance_score
    THEN b.relevance_score - a.relevance_score
    ELSE getTime(b.upload_date) - getTime(a.upload_date)

\* Array.prototype.sort, which is stable: x goes behind the last element that
\* is not to come after it
RECURSIVE insertSorted(_, _)
insertSorted(s, x) ==
  IF s = <<>> THEN <<x>>
  ELSE IF compareResults(s[Len(s)], x) <= 0 THEN Append(s, x)
  ELSE Append(insertSorted(SubSeq(s, 1, Len(s) - 1), x), s[Len(s)])

RECURSIVE sortResults(_)
sortResults(s) ==
  IF s = <<>> THEN <<>>
  ELSE insertSorted(sortResults(SubSeq(s, 1, Len(s) - 1)), s[Len(s)])

\* variant: total_count counts the rows of the table
searchResponseCountingFiles(status, body, results) ==
  [ status |-> status, body |-> body, results |-> results,
    total_count |-> Cardinality(files) ]

searchResponse(status, body, results) ==
  [ status |-> status, body |-> body, results |-> results, total_count |-> Len(results) ]

\* the search handler, for the one request of a behaviour: validation, the store
\* query, format, sort, response
Search(searchQuery) ==
  /\ search = Null
  /\ IF searchQuery = <<>> \/ trim(searchQuery) = <<>>
       THEN /\ search' = [ query |-> searchQuery, returned |-> <<>>,
                           resp |-> searchResponse(400, "required", <<>>) ]
            /\ faultsLeft' = faultsLeft
       ELSE \/ /\ faultsLeft > 0           \* searchError
               /\ faultsLeft' = faultsLeft - 1
               /\ search' = [ query |-> searchQuery, returned |-> <<>>,
                              resp |-> searchResponse(500, "Search failed", <<>>) ]
            \/ /\ faultsLeft' = faultsLeft
               /\ \E searchResults \in
                        ordered(matching(searchPattern(searchTerms(searchQuery)))) :
                    search' =
                      [ query |-> searchQuery, returned |-> searchResults,
                        resp |-> searchResponse(200, "success",
                          sortResults([ j \in DOMAIN searchResults |->
                            formatted(searchResults[j], searchTerms(searchQuery)) ])) ]
  /\ UNCHANGED <<uniqueTagName, uniqueFileTag, tags, file_tags, req, started, last,
                 files, upload, listing, ai, local, client>>

\* a table of files to search in; no tag and no tag link is read by the search
InitSearch ==
  /\ uniqueTagName = TRUE
  /\ uniqueFileTag = TRUE
  /\ tags = {}
  /\ file_tags = NoLinks
  /\ req = [ r \in Req |-> Idle ]
  /\ started = 0
  /\ faultsLeft = MaxFaults
  /\ last = Null
  /\ files \in { tableRows(t) : t \in FileTables }
  /\ upload = NoUpload
  /\ search = Null
  /\ listing = Null
  /\ ai = Null
  /\ local = Null
  /\ client = Null

NextSearch == \E searchQuery \in Queries : Search(searchQuery)

SpecSearch == InitSearch /\ [][NextSearch]_vars
(* ------------------------------ files listing --------------------------- *)

\* ?limit= and ?offset= of the requests
Limits == {1, 50}

Offsets == {0, 1}

\* ?search= of the requests (none, blank, a part of a name)
ListQueries == { <<>>, <<" ">>, <<"l","a","w">> }

\* the filter added to both queries when ?search= is not blank
listFilter(searchQuery) ==
  IF searchQuery # <<>> /\ trim(searchQuery) # <<>>
    THEN { f \in files : ilike(f.filename, <<"%">> \o trim(searchQuery) \o <<"%">>) }
    ELSE files

\* .range(offset, offset + limit - 1)
range(rows, offset, limit) ==
  SubSeq(rows, offset + 1, IF offset + limit < Len(rows) THEN offset + limit ELSE Len(rows))

\* the embedded file_tags rows of a file, by tag id: the name of the tag and the
\* number of link rows
fileTags(f) ==
  [ t \in linkedTags(f.id) |->
      [ tag_name |-> (CHOOSE row \in tags : row.id = t).tag_name,
        rows |-> linkRows(f.id, t) ] ]

formattedFile(f) ==
  [ id |-> f.id, filename |-> f.filename, upload_date |-> f.upload_date,
    has_content |-> f.file_content # <<>> /\ f.file_content[1] # <<>>,
    tags |-> fileTags(f) ]

\* count is the list of the one number counted, empty (null) when the count
\* query failed
pagination(limit, offset, count) ==
  [ limit |-> limit, offset |-> offset,
    total |-> IF count = <<>> THEN 0 ELSE count[1],
    has_more |-> IF count = <<>> \/ count[1] = 0 THEN FALSE ELSE offset + limit < count[1] ]

\* the files handler up to its first query
ListFiles(limit, offset, searchQuery) ==
  /\ listing = Null
  /\ \/ /\ faultsLeft > 0                 \* filesError
        /\ faultsLeft' = faultsLeft - 1
        /\ listing' = [ pc |-> "done", status |-> 500, body |-> "Failed to fetch files" ]
     \/ /\ faultsLeft' = faultsLeft
        /\ \E rows \in ordered(listFilter(searchQuery)) :
             listing' = [ pc |-> "count", limit |-> limit, offset |-> offset,
                          search_query |-> searchQuery,
                          files |-> [ j \in DOMAIN range(rows, offset, limit) |->
                                        formattedFile(range(rows, offset, limit)[j]) ] ]
  /\ UNCHANGED <<uniqueTagName, uniqueFileTag, tags, file_tags, req, started, last,
                 files, upload, search, ai, local, client>>

\* the count query and the response; countError is logged
CountFiles ==
  /\ listing # Null
  /\ listing.pc = "count"
  /\ \E count \in { <<>>, <<Cardinality(listFilter(listing.search_query))>> } :
       /\ IF count = <<>>
            THEN faultsLeft > 0 /\ faultsLeft' = faultsLeft - 1
            ELSE faultsLeft' = faultsLeft
       /\ listing' = [ pc |-> "done", status |-> 200, body |-> "success",
                       files |-> listing.files,
                       pagination |-> pagination(listing.limit, listing.offset, count) ]
  /\ UNCHANGED <<uniqueTagName, uniqueFileTag, tags, file_tags, req, started, last,
                 files, upload, search, ai, local, client>>

(* ------------------------------ all handlers ---------------------------- *)

\* requests of any kind received so far
received ==
  started + (IF search = Null THEN 0 ELSE 1) + (IF listing = Null THEN 0 ELSE 1)
          + (IF upload.pc = "idle" THEN 0 ELSE 1)

CoreRequest(r) == received < MaxRequests /\ Request(r)

CoreSearch(searchQuery) == received < MaxRequests /\ Search(searchQuery)

CoreList(limit, offset, searchQuery) ==
  received < MaxRequests /\ ListFiles(limit, offset, searchQuery)

CoreUpload(name) == received < MaxRequests /\ upload.pc = "idle" /\ Upload(name)

\* classification, upload, search and listing requests in any order, and the
\* steps of the handlers that serve them
NextCore ==
  \/ \E r \in Req : CoreRequest(r)
  \/ \E searchQuery \in Queries : CoreSearch(searchQuery)
  \/ \E limit \in Limits, offset \in Offsets, searchQuery \in ListQueries :
       CoreList(limit, offset, searchQuery)
  \/ \E name \in FileNames : CoreUpload(name)
  \/ CountFiles
  \/ StorageUpload
  \/ InsertFile
  \/ ExtractText
  \/ InsertContent
  \/ AutoTagReturns
  \/ \E r \in Req :
       \/ CallAutoTag(r)
       \/ FindTag(r)
       \/ CreateTag(r)
       \/ DeleteLinks(r)
       \/ InsertLinks(r)

SpecCore == Init /\ [][NextCore]_vars

(* ------------------ extractKeywordsAndTags on its own ------------------- *)

\* how often a word is repeated in a text at most
MaxRepeat == 2

\* the pieces the texts are made of, three lists: keywords of six domains, one
\* of them short; the name of a domain and words of no domain; and a stop word,
\* a number and a short token, punctuation, white space, and a token with a
\* digit before a keyword in capitals
Vocabularies ==
  << << <<"l","a","w">>,
       <<"h","e","a","l","t","h">>,
       <<"f","i","n","a","n","c","i","a","l">>,
       <<"s","t","u","d","y">> >>,
     << <<"l","e","g","a","l">>,
       <<"z","e","b","r","a">>,
       <<"p","a","n","d","a">>,
       <<"t","i","g","e","r">> >>,
     << <<"T","h","i","s"," ","1","2","3","4"," ","a","b">>,
       <<".">>,
       <<"\t">>,
       <<"x","2","y"," ","T","A","X","!">> >> >>

RECURSIVE repeated(_, _)
repeated(w, n) == IF n = 0 THEN <<>> ELSE w \o <<" ">> \o repeated(w, n - 1)

\* the pieces of a list from the i-th on, each as often as count says
RECURSIVE textFrom(_, _, _)
textFrom(pieces, count, i) ==
  IF i > Len(pieces) THEN <<>>
  ELSE repeated(pieces[i], count[i]) \o textFrom(pieces, count, i + 1)

\* the same with the last piece first
RECURSIVE textDownFrom(_, _, _)
textDownFrom(pieces, count, i) ==
  IF i = 0 THEN <<>>
  ELSE repeated(pieces[i], count[i]) \o textDownFrom(pieces, count, i - 1)

\* the texts, without the space after the last piece
LocalTexts ==
  { SubSeq(t, 1, Len(t) - 1) :
      t \in UNION { { textFrom(Vocabularies[v], count, 1),
                      textDownFrom(Vocabularies[v], count, Len(Vocabularies[v])) } :
                      v \in DOMAIN Vocabularies,
                      count \in [ 1 .. 4 -> 0 .. MaxRepeat ] } }

\* a call of extractKeywordsAndTags(text) about to be made
InitExtract ==
  /\ uniqueTagName = TRUE
  /\ uniqueFileTag = TRUE
  /\ tags = {}
  /\ file_tags = NoLinks
  /\ req = [ r \in Req |-> Idle ]
  /\ started = 0
  /\ faultsLeft = MaxFaults
  /\ last = Null
  /\ files = {}
  /\ upload = NoUpload
  /\ search = Null
  /\ listing = Null
  /\ ai = Null
  /\ client = Null
  /\ local \in { [ pc |-> "call", text |-> text, tags |-> <<>> ] : text \in LocalTexts }

\* the call returns
Extract ==
  /\ local.pc = "call"
  /\ local' = [ local EXCEPT !.pc = "done", !.tags = extractKeywordsAndTags(local.text) ]
  /\ UNCHANGED <<uniqueTagName, uniqueFileTag, tags, file_tags, req, started, faultsLeft,
                 last, files, upload, search, listing, ai, client>>

NextExtract == Extract

SpecExtract == InitExtract /\ [][NextExtract]_vars

(* --------------------------- identifyTagsWithAI ------------------------- *)

\* the HTTP status of the classifier's response
AiStatuses == {200, 500}

\* the values of a JSON list in the completion: strings and a number
AiLists ==
  { <<>>,
    << [ string |-> TRUE, v |-> <<"i","n","v","o","i","c","e">> ] >>,
    << [ string |-> TRUE, v |-> <<"T","a","x">> ], [ string |-> FALSE, v |-> <<"3">> ] >>,
    << [ string |-> TRUE, v |-> <<"L","E","G","A","L">> ], [ string |-> TRUE, v |-> <<"t","a","x">> ] >> }

\* the response body: not JSON, null, { error }, an object without choices,
\* choices: [], or a completion whose message content is missing, blank, not
\* JSON, a JSON object, a number instead of a string, or a JSON list
AiBodies ==
  { [ kind |-> k, content |-> "none", items |-> <<>> ] :
      k \in {"not_json", "null", "error", "no_choices", "empty_choices"} }
  \cup { [ kind |-> "completion", content |-> c, items |-> <<>> ] :
           c \in {"none", "blank", "text", "object", "number"} }
  \cup { [ kind |-> "completion", content |-> "list", items |-> l ] : l \in AiLists }

\* how a piece of the function ends: with a value or with an exception
returned(list) == [ threw |-> FALSE, tags |-> list ]

thrown == [ threw |-> TRUE, tags |-> <<>> ]

\* JSON.parse(content), Array.isArray, filter: the inner catch returns []
parseTags(body) ==
  IF body.content = "list"
    THEN returned(SelectSeq(body.items, LAMBDA x : x.string))
    ELSE returned(<<>>)

\* response.json(), data.error, data.choices[0]?.message?.content?.trim()
readData(body) ==
  IF body.kind \in {"not_json", "null", "no_choices"} THEN thrown
  ELSE IF body.kind \in {"error", "empty_choices"} THEN returned(<<>>)
  ELSE IF body.content = "number" THEN thrown
  ELSE IF body.content \in {"none", "blank"} THEN returned(<<>>)
  ELSE parseTags(body)

\* catch (error) { console.error(...); return []; }
outerCatch(r) == IF r.threw THEN returned(<<>>) ELSE r

\* a call of identifyTagsWithAI about to be made, and what the classifier will do
AiCalls ==
  { [ pc |-> "call", key |-> TRUE, net |-> n, status |-> s, body |-> b, calls |-> 0,
      result |-> returned(<<>>) ] :
      n \in {"ok", "error"}, s \in AiStatuses, b \in AiBodies }

InitAi ==
  /\ uniqueTagName = TRUE
  /\ uniqueFileTag = TRUE
  /\ tags = {}
  /\ file_tags = NoLinks
  /\ req = [ r \in Req |-> Idle ]
  /\ started = 0
  /\ faultsLeft = MaxFaults
  /\ last = Null
  /\ files = {}
  /\ upload = NoUpload
  /\ search = Null
  /\ listing = Null
  /\ local = Null
  /\ client = Null
  /\ ai \in AiCalls

\* await fetch(...)
Fetch ==
  /\ ai.pc = "call"
  /\ ai' = IF ai.net = "error"
             THEN [ ai EXCEPT !.pc = "done", !.calls = ai.calls + 1,
                              !.result = outerCatch(thrown) ]
             ELSE [ ai EXCEPT !.pc = "read", !.calls = ai.calls + 1 ]
  /\ UNCHANGED <<uniqueTagName, uniqueFileTag, tags, file_tags, req, started, faultsLeft,
                 last, files, upload, search, listing, local, client>>

\* the rest of the function
ReadResponse ==
  /\ ai.pc = "read"
  /\ ai' = [ ai EXCEPT !.pc = "done", !.result = outerCatch(readData(ai.body)) ]
  /\ UNCHANGED <<uniqueTagName, uniqueFileTag, tags, file_tags, req, started, faultsLeft,
                 last, files, upload, search, listing, local, client>>

NextAi == Fetch \/ ReadResponse

SpecAi == InitAi /\ [][NextAi]_vars

\* the handler with OPENAI_API_KEY set and a classifier that answers 200 with a
\* list of tags
InitConfigured ==
  /\ uniqueTagName \in BOOLEAN
  /\ uniqueFileTag \in BOOLEAN
  /\ tags = {}
  /\ file_tags = NoLinks
  /\ req = [ r \in Req |-> Idle ]
  /\ started = 0
  /\ faultsLeft = MaxFaults
  /\ last = Null
  /\ files = {}
  /\ upload = NoUpload
  /\ search = Null
  /\ listing = Null
  /\ local = Null
  /\ client = Null
  /\ ai \in { a \in AiCalls : /\ a.net = "ok" /\ a.status = 200
                              /\ a.body.content = "list" /\ a.body.items # <<>> }

SpecConfigured == InitConfigured /\ [][Next]_vars


(* ------------------- AtlasAPI.autoTagFile (src/services/api.ts) --------- *)

\* the fileId strings the browser passes: ids of rows of files, one with a
\* leading zero
ClientIds == { <<"1">>, <<"0","1">>, <<"2">> }

\* parseInt(fileId): the number its leading digits spell; without a leading
\* digit NaN, which JSON.stringify writes as null (NoFile)
RECURSIVE parseDigits(_, _)
parseDigits(s, n) ==
  LET chars    == <<"0","1","2","3","4","5","6","7","8","9">>
      value(c) == (CHOOSE d \in DOMAIN chars : chars[d] = c) - 1
  IN  IF s = <<>> \/ ~isDigit(Head(s)) THEN n
      ELSE parseDigits(Tail(s), 10 * n + value(Head(s)))

parseInt(s) == IF s = <<>> \/ ~isDigit(Head(s)) THEN NoFile ELSE parseDigits(s, 0)

\* JSON.stringify({ file_id: parseInt(fileId) }): the body has no file_text
autoTagFileBody(fileId) == <<parseInt(fileId), 1>>

\* what autoTagFile returns for a response
clientResult(resp) ==
  IF resp.status # 200
    THEN [ success |-> FALSE, tags |-> <<>>, tag_count |-> 0 ]
    ELSE [ success |-> TRUE, tags |-> resp.tags, tag_count |-> resp.tag_count ]

\* autoTagFile(fileId) for a file that exists, after its upload: the fetch
AutoTagFile(r) ==
  /\ client = Null
  /\ upload.pc = "done"
  /\ started < MaxRequests
  /\ \E fileId \in ClientIds :
       /\ \E f \in files : f.id = parseInt(fileId)
       /\ \/ /\ faultsLeft > 0           \* the fetch throws
             /\ faultsLeft' = faultsLeft - 1
             /\ r = 1
             /\ client' = [ pc |-> "done", fileId |-> fileId, handler |-> r,
                            resp |-> Null,
                            result |-> [ success |-> FALSE, tags |-> <<>>,
                                         tag_count |-> 0 ] ]
             /\ UNCHANGED <<req, started, last>>
          \/ /\ Receive(r, autoTagFileBody(fileId)[1], autoTagFileBody(fileId)[2])
             /\ client' = [ pc |-> "await", fileId |-> fileId, handler |-> r,
                            resp |-> Null, result |-> Null ]
  /\ UNCHANGED <<uniqueTagName, uniqueFileTag, tags, file_tags>>
  /\ UNCHANGED <<files, upload, search, listing, ai, local>>

\* the response arrives: !response.ok throws, data.success returns the tags
AutoTagFileReturns ==
  /\ client # Null
  /\ client.pc = "await"
  /\ req[client.handler].pc = "done"
  /\ client' = [ client EXCEPT !.pc = "done", !.resp = req[client.handler].resp,
                               !.result = clientResult(req[client.handler].resp) ]
  /\ UNCHANGED <<uniqueTagName, uniqueFileTag, tags, file_tags, req, started,
                 faultsLeft, last, files, upload, search, listing, ai, local>>

\* a document is uploaded, and the browser asks for its tags again
NextClient ==
  \/ \E name \in FileNames : Upload(name)
  \/ StorageUpload
  \/ InsertFile
  \/ ExtractText
  \/ InsertContent
  \/ AutoTagReturns
  \/ AutoTagFileReturns
  \/ \E r \in Req :
       \/ CallAutoTag(r)
       \/ AutoTagFile(r)
       \/ FindTag(r)
       \/ CreateTag(r)
       \/ DeleteLinks(r)
       \/ InsertLinks(r)

SpecClient == Init /\ [][NextClient]_vars
(* --------------------------- further claims ----------------------------- *)

\* C11: an upload whose text is empty leaves a content row for its file, and the
\* classification of that empty text answers success with an empty tag list (no
\* store call failing).
C11_EmptyTextClassified ==
  (/\ noFault
   /\ upload.pc = "done"
   /\ upload.resp.status = 200
   /\ upload.text = <<>>)
  => /\ upload.content
     /\ fileRow(upload.fileId).file_content = << <<>> >>
     /\ upload.tag # Null
     /\ upload.tag.status = 200
     /\ upload.tag.tags = <<>>

\* the search has been answered with a result list
searched == search # Null /\ search.resp.status = 200

results == search.resp.results

\* the place of a result among the rows as the store returned them
returnedAt(x) == CHOOSE j \in DOMAIN search.returned : search.returned[j].id = x.id

\* C12: the results are in descending order of score and, within a score, of
\* upload date; results equal in both are in the order in which the store
\* returned them.
C12_ResultOrder ==
  searched =>
    \A i, j \in DOMAIN results :
      i < j =>
        /\ results[i].relevance_score >= results[j].relevance_score
        /\ results[i].relevance_score = results[j].relevance_score
             => results[i].upload_date >= results[j].upload_date
        /\ (/\ results[i].relevance_score = results[j].relevance_score
            /\ results[i].upload_date = results[j].upload_date)
             => returnedAt(results[i]) < returnedAt(results[j])

\* three results of one score: two uploaded within the same millisecond at
\* different dates, two at the same date
C12_Witness ==
  /\ searched
  /\ Len(results) = 3
  /\ results[1].relevance_score = results[3].relevance_score
  /\ \E i, j \in DOMAIN results :
       /\ results[i].upload_date # results[j].upload_date
       /\ getTime(results[i].upload_date) = getTime(results[j].upload_date)
  /\ \E i, j \in DOMAIN results : i # j /\ results[i].upload_date = results[j].upload_date

\* s has the characters of p somewhere in a row, whatever the letter case
contains(s, p) ==
  LET ls == toLowerCase(s)
      lp == toLowerCase(p)
  IN  \E i \in 1 .. Len(ls) - Len(lp) + 1 : SubSeq(ls, i, i + Len(lp) - 1) = lp

inName(x) == contains(x.filename, trim(search.query))

inText(x) ==
  \E f \in files : /\ f.id = x.id
                    /\ \E k \in DOMAIN f.file_content :
                         contains(f.file_content[k], trim(search.query))

\* C13: a result's score is 3 when the query (trimmed, lower-cased) is in the
\* file name and in the indexed text, 2 when it is in the name and not in the
\* text (or there is no text), 1 otherwise; and a result with the match in both
\* comes before one with the match in the name only, which comes before one with
\* the match in the text only.
C13_Score ==
  searched =>
    /\ \A i \in DOMAIN results :
         results[i].relevance_score =
           (IF inName(results[i]) /\ inText(results[i]) THEN 3
            ELSE IF inName(results[i]) THEN 2
            ELSE 1)
    /\ \A i, j \in DOMAIN results :
         LET placed(x) == IF inName(x) /\ inText(x) THEN "C"
                          ELSE IF inName(x) THEN "A"
                          ELSE IF inText(x) THEN "B" ELSE "none"
         IN  <<placed(results[i]), placed(results[j])>>
               \in {<<"C", "A">>, <<"A", "B">>, <<"C", "B">>} => i < j

\* results C, A, B: in both, in the name only, in the text only
C13_Witness ==
  /\ searched
  /\ Len(results) = 3
  /\ inName(results[1]) /\ inText(results[1])
  /\ inName(results[2]) /\ ~inText(results[2])
  /\ ~inName(results[3]) /\ inText(results[3])
  /\ results[1].upload_date < results[3].upload_date

\* C14: the results are the files whose name or indexed text contains the
\* trimmed, lower-cased query, each once, and total_count is their number.
C14_ExactlyTheMatches ==
  searched =>
    /\ \A f \in files :
         (contains(f.filename, trim(search.query))
            \/ \E k \in DOMAIN f.file_content :
                 contains(f.file_content[k], trim(search.query)))
         <=> \E i \in DOMAIN results : results[i].id = f.id
    /\ \A i, j \in DOMAIN results : results[i].id = results[j].id => i = j
    /\ search.resp.total_count = Len(results)

\* C15 as stated: every search is answered with success.
C15_AlwaysSuccess ==
  search # Null => search.resp.status = 200

\* C15 amended: a search with a query that is not blank, and whose store query
\* did not fail, is answered with success and total_count is the length of the
\* result list; when no file matches, the list is empty and total_count is 0.
C15_SuccessUnlessRejected ==
  (/\ search # Null
   /\ trim(search.query) # <<>>
   /\ search.resp.body # "Search failed")
  => /\ search.resp.status = 200
     /\ search.resp.total_count = Len(results)
     /\ matching(searchPattern(searchTerms(search.query))) = {}
          => results = <<>> /\ search.resp.total_count = 0

\* a query without match in a table with rows
C15_Witness ==
  /\ searched
  /\ files # {}
  /\ results = <<>>
  /\ search.resp.total_count = 0

\* C16: with tag names unique in the store and no store call failing for an
\* outside reason, a request answered "tagged" has resolved every identified
\* name to the id of the tag row of that name (a rejected insert is followed by
\* a re-read), and with no overlapping request for the file those tags are the
\* file's links.
C16_ConflictRereads ==
  \A r \in Req :
    (/\ uniqueTagName
     /\ noFault
     /\ answeredReq(r)
     /\ req[r].resp.body = "tagged")
    => /\ \A i \in DOMAIN req[r].identifiedTags :
            \E t \in tagRows(insertName(req[r].identifiedTags[i])) : t.id \in resolved(r)
       /\ ~req[r].conc
            => \A i \in DOMAIN req[r].identifiedTags :
                 \E t \in tagRows(insertName(req[r].identifiedTags[i])) :
                   t.id \in linkedTags(req[r].file_id)

C18_LocalTagList ==
  local # Null /\ local.pc = "done" =>
    LET domainTags == sortedTags(words(local.text))
    IN  /\ \A i, j \in DOMAIN local.tags : local.tags[i] = local.tags[j] => i = j
        /\ Len(local.tags) <= 6
        /\ Len(domainTags) <= Len(local.tags)
        /\ SubSeq(local.tags, 1, Len(domainTags)) = domainTags
        /\ Len(domainTags) = 5 => Len(local.tags) <= 6 /\ Len(local.tags) - 5 <= 1

\* 5 domain tags and frequent words that would make more than 6 entries
C18_Witness ==
  /\ local # Null /\ local.pc = "done"
  /\ Len(sortedTags(words(local.text))) = 5
  /\ Len(unique(sortedTags(words(local.text)) \o meaningfulWords(words(local.text)))) > 6
  /\ Len(local.tags) = 6

\* the call of identifyTagsWithAI has ended
aiDone == ai # Null /\ ai.pc = "done"

\* C19: a call of identifyTagsWithAI ends without an exception, returns strings
\* only, has made at most one request to the classifier, and returns the empty
\* list after a network error, a response that is not 2xx, an error payload, a
\* body without choices, content that is not JSON and JSON that is not a list.
C19_AiDegrades ==
  aiDone =>
    /\ ~ai.result.threw
    /\ \A i \in DOMAIN ai.result.tags : ai.result.tags[i].string
    /\ ai.calls <= 1
    /\ (\/ ai.net = "error"
        \/ ai.status < 200 \/ ai.status > 299
        \/ ai.body.kind # "completion"
        \/ ai.body.content # "list")
       => ai.result.tags = <<>>

\* the tags the configured classifier returns for a request, lower-cased
classifierTags ==
  { toLowerCase(outerCatch(readData(ai.body)).tags[i].v) :
      i \in DOMAIN outerCatch(readData(ai.body)).tags }

\* C20: with the classifier configured, a request that passed the validation is
\* answered with the union, whatever the letter case, of the local tags of its
\* text and the tags the classifier returns, the classifier has been called, and
\* the names resolved for the file are those of that union.
C20_MergedTags ==
  \A r \in Req :
    (/\ ai # Null /\ ai.key
     /\ answeredReq(r)
     /\ validBody(req[r].file_id, Texts[req[r].txt]))
    => /\ ai.calls > 0
       /\ { toLowerCase(req[r].resp.tags[i]) : i \in DOMAIN req[r].resp.tags }
            = { toLowerCase(extractKeywordsAndTags(Texts[req[r].txt])[i]) :
                  i \in DOMAIN extractKeywordsAndTags(Texts[req[r].txt]) }
              \cup classifierTags
       /\ noFault /\ req[r].resp.status = 200
            => classifierTags \subseteq
                 { toLowerCase(t.tag_name) : t \in { u \in tags : u.id \in resolved(r) } }

\* C21: an upload that has stored the file and inserted its files row answers
\* 200 with the id of that row, whatever became of the file_content insert and
\* of the call of auto-tag-file.
C21_UploadSurvivesLaterSteps ==
  (upload.pc = "done" /\ upload.fileId # NoFile)
  => /\ upload.resp.status = 200
     /\ upload.resp.file_id = upload.fileId
     /\ \E f \in files : f.id = upload.fileId

\* an upload answered after its file_content insert failed and auto-tag-file
\* answered with an error status
C21_Witness ==
  /\ upload.pc = "done"
  /\ upload.fileId # NoFile
  /\ ~upload.content
  /\ upload.tag # Null
  /\ upload.tag.status # 200

\* the text of the call that has returned, normalized, and its domain tags
tokens == words(local.text)

extracted == local # Null /\ local.pc = "done"

\* the place of a domain tag in the keyword table
declaredAt(tag) == CHOOSE d \in DOMAIN domainKeywords : domainKeywords[d].tag = tag

\* C22: the domain tags are domains with a score above 0, each once, the 5 first
\* of them when there are more, in descending order of score and, for equal
\* scores, in the order of the keyword table; a domain with a score above 0 that
\* is left out comes after all of them in that order.
C22_DomainTags ==
  extracted =>
    LET ws         == tokens
        domainTags == sortedTags(ws)
        scores     == [ d \in DOMAIN domainKeywords |-> domainScore(ws, d) ]
        score(d)   == scores[d]
        positive   == { d \in DOMAIN domainKeywords : score(d) > 0 }
        at(i)      == declaredAt(domainTags[i])
        before(d, e) == score(d) > score(e) \/ (score(d) = score(e) /\ d < e)
    IN  /\ Len(domainTags) = (IF Cardinality(positive) < 5 THEN Cardinality(positive) ELSE 5)
        /\ \A i \in DOMAIN domainTags : at(i) \in positive
        /\ \A i, j \in DOMAIN domainTags : i < j => before(at(i), at(j))
        /\ \A d \in positive :
             (\A i \in DOMAIN domainTags : at(i) # d)
             => \A i \in DOMAIN domainTags : before(at(i), d)

\* six domains score, two pairs of them equally, and one is cut
C22_Witness ==
  /\ extracted
  /\ Cardinality({ d \in DOMAIN domainKeywords : domainScore(tokens, d) > 0 }) = 6
  /\ Len(sortedTags(tokens)) = 5
  /\ \E d, e \in DOMAIN domainKeywords :
       /\ d # e
       /\ domainScore(tokens, d) > 0
       /\ domainScore(tokens, d) = domainScore(tokens, e)
  /\ \E d, e \in DOMAIN domainKeywords :
       /\ domainScore(tokens, e) > 0
       /\ domainScore(tokens, d) > domainScore(tokens, e)

\* the tokens of the text as strings of the keyword table
tokenStrings == LET ws == tokens IN [ i \in DOMAIN ws |-> Str(ws[i]) ]

\* the places where token i of strs is entry j of the keyword list of domain d
hits(strs, d) ==
  { p \in (DOMAIN strs) \X (DOMAIN domainKeywords[d].keywords) :
      strs[p[1]] = domainKeywords[d].keywords[p[2]] }

\* C23: the score of a domain is the sum, over the keywords of the domain that
\* are tokens of the text, of the number of occurrences times the weight, 2 for
\* a keyword of more than 4 characters and 1 otherwise.
C23_Score ==
  extracted =>
    LET ws   == tokens
        strs == tokenStrings
    IN  \A d \in DOMAIN domainKeywords :
          LET found   == hits(strs, d)
              long(p) == Len(domainKeywords[d].keywords[p[2]]) > 4
          IN  domainScore(ws, d)
                = Cardinality({ p \in found : ~long(p) })
                  + 2 * Cardinality({ p \in found : long(p) })

\* a short keyword and a long keyword both occur more than once
C23_Witness ==
  /\ extracted
  /\ LET strs == tokenStrings
     IN  /\ \E d \in DOMAIN domainKeywords :
              LET found == hits(strs, d)
              IN  \E p, q \in found :
                    /\ p[1] # q[1] /\ p[2] = q[2]
                    /\ Len(domainKeywords[d].keywords[p[2]]) <= 4
         /\ \E d \in DOMAIN domainKeywords :
              LET found == hits(strs, d)
              IN  \E p, q \in found :
                    /\ p[1] # q[1] /\ p[2] = q[2]
                    /\ Len(domainKeywords[d].keywords[p[2]]) > 4

\* the tokens that may become supplemental tags when the domain tags are dom
candidates(ws, dom) ==
  { ws[i] : i \in { j \in DOMAIN ws :
                      /\ wordFreqGet(ws, ws[j]) >= 2
                      /\ Len(ws[j]) >= 4 /\ Len(ws[j]) <= 15
                      /\ \A k \in DOMAIN dom : dom[k] # ws[j] } }

\* C24: the tags returned after the domain tags are the most frequent tokens
\* among those that occur at least twice, have 4 to 15 characters and are not a
\* domain tag: 3 of them, or all when there are fewer, or as many as the cap
\* of 6 tags leaves room for; a token that is a domain tag takes none of the 3
\* places.
C24_SupplementalTags ==
  extracted =>
    LET ws    == tokens
        dom   == sortedTags(ws)
        rest  == SubSeq(local.tags, Len(dom) + 1, Len(local.tags))
        cands == candidates(ws, dom)
        room  == 6 - Len(dom)
        most  == IF Cardinality(cands) < 3 THEN Cardinality(cands) ELSE 3
    IN  /\ Len(rest) = (IF room < most THEN room ELSE most)
        /\ \A i \in DOMAIN rest : rest[i] \in cands
        /\ \A i, j \in DOMAIN rest : i < j => rest[i] # rest[j]
        /\ \A w \in cands :
             (\A i \in DOMAIN rest : rest[i] # w)
             => \A i \in DOMAIN rest : wordFreqGet(ws, rest[i]) >= wordFreqGet(ws, w)

\* the words ws occur in s one after the other, without overlap, from place from on
RECURSIVE occurInOrder(_, _, _)
occurInOrder(s, ws, from) ==
  IF ws = <<>> THEN TRUE
  ELSE LET w  == Head(ws)
           at == { i \in from .. Len(s) - Len(w) + 1 : SubSeq(s, i, i + Len(w) - 1) = w }
       IN  /\ at # {}
           /\ occurInOrder(s, Tail(ws), (CHOOSE i \in at : \A j \in at : i <= j) + Len(w))

\* C25: every token that reaches the frequency table has no capital letter, has
\* more than 2 characters, is not a number and is not a stop word; the tokens
\* are in the order in which they occur in the text; the table holds every
\* token once, with the number of its occurrences, which is at least 1.
C25_NormalizedTokens ==
  extracted =>
    LET ws    == tokens
        table == wordFreq(ws)
    IN  /\ \A i \in DOMAIN ws :
             /\ \A c \in DOMAIN ws[i] : ws[i][c] \notin Range(UpperLetters)
             /\ Len(ws[i]) > 2
             /\ \E c \in DOMAIN ws[i] : ws[i][c] \notin Digits
             /\ Str(ws[i]) \notin stopWords
        /\ occurInOrder(toLowerCase(local.text), ws, 1)
        /\ \A i \in DOMAIN ws : \E e \in DOMAIN table : table[e].k = ws[i]
        /\ \A e, f \in DOMAIN table : table[e].k = table[f].k => e = f
        /\ \A e \in DOMAIN table :
             /\ table[e].n = Cardinality({ i \in DOMAIN ws : ws[i] = table[e].k })
             /\ table[e].n >= 1

\* a text with a capital letter, a stop word, a number and a short word, from
\* which two tokens remain, each more than once
C25_Witness ==
  /\ extracted
  /\ \E c \in DOMAIN local.text : local.text[c] \in Range(UpperLetters)
  /\ LET pieces == split(cleanText(local.text))
     IN  /\ \E i \in DOMAIN pieces : Str(pieces[i]) \in stopWords
         /\ \E i \in DOMAIN pieces : isNumeric(pieces[i])
         /\ \E i \in DOMAIN pieces : Len(pieces[i]) = 2
  /\ LET table == wordFreq(tokens)
     IN  /\ Len(table) = 2
         /\ \A e \in DOMAIN table : table[e].n >= 2

\* the runs of letters, digits and _ of s that no such character precedes or follows
runs(s) ==
  LET word   == [ i \in DOMAIN s |-> isWordChar(s[i]) ]
      starts == { i \in DOMAIN s : word[i] /\ (i > 1 => ~word[i - 1]) }
      ends   == { j \in DOMAIN s : word[j] /\ (j < Len(s) => ~word[j + 1]) }
  IN  { SubSeq(s, i, CHOOSE j \in ends : j >= i /\ \A k \in ends : k >= i => j <= k) :
          i \in starts }

\* nothing of the text is a token: it has only white space, punctuation, stop
\* words, numbers and words of at most 2 characters
tokenless(text) ==
  \A w \in runs(toLowerCase(text)) :
    \/ Len(w) <= 2
    \/ Str(w) \in stopWords
    \/ \A c \in DOMAIN w : w[c] \in Digits

\* C26: a text that is empty or has only white space, punctuation, stop words,
\* numbers and words of at most 2 characters gets the empty tag list.
C26_NoTokensNoTags ==
  (extracted /\ tokenless(local.text)) => local.tags = <<>>

\* a text with a stop word, a number, a short word and punctuation, and no token
C26_Witness ==
  /\ extracted
  /\ tokenless(local.text)
  /\ Cardinality(runs(toLowerCase(local.text))) >= 3
  /\ \E c \in DOMAIN local.text : local.text[c] = "."
  /\ local.tags = <<>>

\* request r takes a step of its own: a store call returns
stepOf(r) == started' = started /\ req'[r] # req[r]

\* no row of file_tags is added, no row is removed
nothingAdded == \A p \in DOMAIN file_tags' : linkRows(p[1], p[2]) >= file_tags'[p]

nothingRemoved ==
  \A p \in DOMAIN file_tags : p \in DOMAIN file_tags' /\ file_tags'[p] >= file_tags[p]

\* C27: a request resolves its tag names one at a time, in the order of the
\* identified tag list; it deletes and inserts links only when every name has
\* been resolved or skipped; its delete comes first and its insert follows.
C27_StepsInOrder ==
  [][ /\ file_tags' # file_tags => \E r \in Req : stepOf(r)
      /\ \A r \in Req :
           stepOf(r) =>
             LET q     == req[r]
                 n     == req'[r]
                 names == q.identifiedTags
             IN  /\ q.pc \in {"find", "create", "delete", "insert"}
                 /\ n.identifiedTags = names
                 /\ q.pc \in {"find", "create"} =>
                      /\ q.i \in 1 .. Len(names)
                      /\ file_tags' = file_tags
                      /\ \/ /\ q.pc = "find" /\ n.pc = "create"
                            /\ n.i = q.i /\ n.tagIds = q.tagIds
                         \/ /\ n.i = q.i + 1
                            /\ n.pc = "find" <=> n.i <= Len(names)
                            /\ \/ n.tagIds = q.tagIds
                               \/ \E t \in tags' :
                                    /\ t.tag_name = toLowerCase(names[q.i])
                                    /\ n.tagIds = Append(q.tagIds, t.id)
                 /\ q.pc = "delete" =>
                      /\ q.i > Len(names)
                      /\ n.pc = "insert" /\ n.tagIds = q.tagIds
                      /\ nothingAdded
                 /\ q.pc = "insert" =>
                      /\ q.i > Len(names)
                      /\ n.pc = "done" /\ n.tagIds = q.tagIds
                      /\ nothingRemoved
                 /\ n.pc = "insert" => q.pc = "delete" ]_vars

\* a request resolved two names, deleted the old links and inserted its own
C27_Witness ==
  \E r \in Req :
    /\ req[r].pc = "done" /\ req[r].resp.body = "tagged"
    /\ Len(req[r].identifiedTags) >= 2
    /\ Len(req[r].tagIds) = Len(req[r].identifiedTags)
    /\ req[r].deleted
    /\ linkedTags(req[r].file_id) = Range(req[r].tagIds)

\* C28: when two requests for the same file overlapped and both have ended,
\* the tags linked to the file are the resolved tags of one of them (stated for
\* a store that keeps tag names and pairs (file, tag) unique, no store call
\* failing).
C28_OneRequestWins ==
  (/\ noFault /\ uniqueTagName /\ uniqueFileTag
   /\ \A r \in Req : req[r].pc = "done" /\ req[r].conc
   /\ \A r, o \in Req : req[r].file_id = req[o].file_id)
  => \E r \in Req : linkedTags(req[r].file_id) = resolved(r)

\* C29: a request whose delete of the old links failed inserts no link: its
\* next step leaves file_tags as it is and answers with a failure.
C29_InsertOnlyAfterDelete ==
  [][ \A r \in Req :
        (stepOf(r) /\ req[r].pc = "insert" /\ ~req[r].deleted)
        => /\ file_tags' = file_tags
           /\ req'[r].resp.status # 200 ]_vars

\* C30: a request of autoTagFile for a file that exists is not turned down by
\* the validation of the endpoint.
C30_ClientPassesValidation ==
  (client # Null /\ client.pc = "done" /\ client.resp # Null)
  => client.resp # badRequest

====
